---- MODULE Spec2Model ----
(***************************************************************************)
(* Session lifecycle and request dispatch of the Sierra DB Query MCP       *)
(* server (src/src/tools/users.ts, class SierraDBServer): the HTTP binding *)
(* with its live-session map `transports`, the tools/call handler, the     *)
(* allow-list filter and the shutdown handlers.                            *)
(*                                                                         *)
(* Node.js runs the handlers on one thread: a handler runs without         *)
(* interleaving until it awaits real I/O (a database call, pool.end()).    *)
(* One action of this module is one such run.                              *)
(***************************************************************************)
EXTENDS Integers, Sequences, FiniteSets, TLC

\* ------------------------------------------------------------------ bounds
\* Number of StreamableHTTPServerTransport objects created in a run.
MaxTransports == 2
\* Number of tools/call handlers awaiting the database at the same time.
MaxInflight == 1
\* The JSON-RPC ids clients use are 1..MaxRpcId.
MaxRpcId == 1

\* ------------------------------------------------------- values and inputs
\* Values randomUUID() can return; session ids are strings.
UuidPool == <<"uuid-1", "uuid-2", "uuid-3", "uuid-4">>

UUIDs == {UuidPool[i] : i \in 1..MaxTransports}

\* req.headers['mcp-session-id'] when the header is missing (undefined and
\* the empty string are both falsy in `!sessionId`).
NoHeader == ""

\* A well-formed session id the server never issued.
UnknownId == "uuid-unknown"

\* `transports` and `enabledToolsMap` are plain objects ({}): a key that is
\* a property of Object.prototype is found on the prototype chain.
ObjectPrototypeKeys == {"constructor"}

\* What a lookup yields for a prototype key (a function, not a transport or
\* a tool) and for a missing key.
ProtoObject == -1

Undefined == 0

Truthy(x) == x # Undefined

RpcIds == 1..MaxRpcId

\* ------------------------------------------------------------ the registry
\* Two of the ten tools of allTools, in list order.
availableToolsList == <<"sierra_manage_indexes", "sierra_manage_users">>

AvailableNames == {availableToolsList[i] : i \in DOMAIN availableToolsList}

\* What --tools-config points at: no option given, or a file.  `valid` says
\* that the file could be read and parsed and that its enabledTools is an
\* array of strings; `names` is that array.  The second file names one
\* registered tool and one tool that is not registered.
NoToolsConfig == [given |-> FALSE, valid |-> FALSE, names |-> {}]

AllowListConfig ==
  [given |-> TRUE, valid |-> TRUE,
   names |-> {"sierra_manage_indexes", "sierra_not_registered"}]

\* A file that cannot be read, is not JSON, or has no string array.
UnusableConfig == [given |-> TRUE, valid |-> FALSE, names |-> {}]

\* The files --tools-config can point at.
FileConfigs ==
  {UnusableConfig} \cup
  {[given |-> TRUE, valid |-> TRUE, names |-> n] :
     n \in SUBSET (AvailableNames \cup {"sierra_not_registered"})}

ToolsConfigs == {NoToolsConfig, AllowListConfig}

SeqFilter(seq, keep) ==
  LET F[i \in 0..Len(seq)] ==
        IF i = 0 THEN <<>>
        ELSE IF seq[i] \in keep THEN Append(F[i - 1], seq[i]) ELSE F[i - 1]
  IN F[Len(seq)]

\* A loadAndFilterTools that treats a file naming an unregistered tool as
\* an invalid file.
loadAndFilterToolsStrict(config) ==
  IF config.given /\ config.valid /\ config.names \subseteq AvailableNames
  THEN SeqFilter(availableToolsList, config.names)
  ELSE availableToolsList

\* loadAndFilterTools: toolsToEnable, in the order of availableToolsList.
loadAndFilterTools(config) ==
  IF config.given /\ config.valid
  THEN SeqFilter(availableToolsList, config.names)
  ELSE availableToolsList

\* The names loadAndFilterTools warns about ("specified in config but not
\* found").
ConfigWarnings(config) ==
  IF config.given /\ config.valid THEN config.names \ AvailableNames ELSE {}

\* this.enabledToolsMap[toolName]: the tool (its name), a prototype
\* property, or undefined.
EnabledLookup(enabled, toolName) ==
  IF \E i \in DOMAIN enabled : enabled[i] = toolName THEN toolName
  ELSE IF toolName \in ObjectPrototypeKeys THEN "[prototype]"
  ELSE ""

\* Tool names a client sends in tools/call.
CallNames == AvailableNames \cup {"no_such_tool", "constructor"}

\* ------------------------------------------------------------- arguments
\* A JSON value of request.params.arguments: its type and its text.
Absent == [t |-> "undefined", v |-> ""]

Str(s) == [t |-> "string", v |-> s]

Num(s) == [t |-> "number", v |-> s]

\* if (x) on a JSON value.
JsTruthy(x) ==
  /\ x.t # "undefined"
  /\ ~(x.t = "string" /\ x.v = "")
  /\ ~(x.t = "number" /\ x.v = "0")

\* request.params.arguments: `defined` is FALSE when the client sent none.
Args(op, cs, cols, idx) ==
  [defined |-> TRUE, operation |-> op, connectionString |-> cs,
   columns |-> cols, indexName |-> idx]

NoArgs ==
  [defined |-> FALSE, operation |-> Absent, connectionString |-> Absent,
   columns |-> Absent, indexName |-> Absent]

\* The argument payloads clients send: a valid one, a valid one without a
\* connection string, one that violates the schema in three fields, and
\* none at all.
ValidArgs == Args(Str("get"), Str("postgresql://db"), Absent, Absent)

NoConnectionArgs == Args(Str("get"), Absent, Absent, Absent)

InvalidArgs == Args(Absent, Str("postgresql://db"), Str("id"), Num("7"))

CallArgs == {ValidArgs, NoConnectionArgs, InvalidArgs, NoArgs}

\* The tools/call requests clients send, as <<name, arguments>>: every
\* argument payload for the first tool, the valid one for every name.
CallInputs ==
  {<<"sierra_manage_indexes", a>> : a \in CallArgs}
  \cup {<<n, ValidArgs>> : n \in CallNames}

\* The two of them that the session-lifecycle specification uses: one call
\* that waits for the database and one that is answered at once.
LifecycleInputs ==
  {<<"sierra_manage_indexes", ValidArgs>>, <<"no_such_tool", ValidArgs>>}

\* z.enum([...]) of the operation field of each tool.
OperationEnum(tool) ==
  IF tool = "sierra_manage_indexes"
  THEN {"get", "create", "drop", "reindex", "analyze_usage"}
  ELSE {"create", "drop", "alter", "grant", "revoke", "get_permissions", "list"}

\* What tool.inputSchema.safeParse(args) reports: the fields that violate
\* the declared shape (operation: required enum; connectionString,
\* indexName: optional string; columns: optional array of strings).
\* "(root)" stands for arguments that are not an object at all.
SchemaViolations(tool, args) ==
  IF ~args.defined THEN {"(root)"}
  ELSE
    (IF args.operation.t = "string" /\ args.operation.v \in OperationEnum(tool)
     THEN {} ELSE {"operation"})
    \cup (IF args.connectionString.t \in {"undefined", "string"}
          THEN {} ELSE {"connectionString"})
    \cup (IF args.columns.t \in {"undefined", "array"}
          THEN {} ELSE {"columns"})
    \cup (IF args.indexName.t \in {"undefined", "string"}
          THEN {} ELSE {"indexName"})

\* ----------------------------------------------------- connection string
\* options.connectionString and process.env.POSTGRES_CONNECTION_STRING of
\* the modelled process: neither is set.
cliConnectionString == Absent

envConnectionString == Absent

\* A getConnectionString that asks the environment before the CLI option.
getConnectionStringEnvFirst(connectionStringArg, cli, env) ==
  IF JsTruthy(connectionStringArg)
  THEN [threw |-> FALSE, value |-> connectionStringArg.v]
  ELSE IF JsTruthy(env)
  THEN [threw |-> FALSE, value |-> env.v]
  ELSE IF JsTruthy(cli)
  THEN [threw |-> FALSE, value |-> cli.v]
  ELSE [threw |-> TRUE, value |-> "MCP error -32602: No connection string provided."]

\* The body of getConnectionString, for a process started with the option
\* value `cli` and the environment value `env`: the string, or the McpError
\* it throws.
getConnectionStringOf(connectionStringArg, cli, env) ==
  IF JsTruthy(connectionStringArg)
  THEN [threw |-> FALSE, value |-> connectionStringArg.v]
  ELSE IF JsTruthy(cli)
  THEN [threw |-> FALSE, value |-> cli.v]
  ELSE IF JsTruthy(env)
  THEN [threw |-> FALSE, value |-> env.v]
  ELSE [threw |-> TRUE, value |-> "MCP error -32602: No connection string provided."]

\* getConnectionString in the modelled process.
getConnectionString(connectionStringArg) ==
  getConnectionStringOf(connectionStringArg, cliConnectionString,
                        envConnectionString)

\* ------------------------------------------------------------ tool.execute
\* How the database behaves during one execute: every call succeeds, or
\* db.connect rejects, or the first db.query rejects, or client.release()
\* in db.disconnect() throws.
DbOutcomes == {"ok", "connect_fails", "query_fails", "release_throws"}

\* What a function hands back: a returned ToolOutput or a thrown error.
\* `text` is the text of the single content part (or the error's message),
\* as the sequence of its fragments; `code` is the McpError code, 0 if none.
Return(isError, text) ==
  [kind |-> "return", isError |-> isError, text |-> text, code |-> 0]

Throw(code, text) ==
  [kind |-> "throw", isError |-> FALSE, text |-> text, code |-> code]

\* The label of the tool's own catch block ("Error managing indexes: ...").
ToolCatchLabel(tool) ==
  IF tool = "sierra_manage_indexes"
  THEN "Error managing indexes: "
  ELSE "Error managing users: "

\* execute up to its first await: destructure the arguments (a TypeError for
\* undefined arguments) and resolve the connection string, both outside the
\* tool's try block.  "await" means execute went on to `await db.connect`.
executeStart(tool, args) ==
  IF ~args.defined
  THEN Throw(0, <<"Cannot destructure property 'connectionString' of 'args' as it is undefined.">>)
  ELSE LET cs == getConnectionString(args.connectionString)
       IN IF cs.threw
          THEN Throw(-32602, <<cs.value>>)
          ELSE [kind |-> "await", isError |-> FALSE, text |-> <<cs.value>>, code |-> 0]

\* The switch (operation) of the tool, run after db.connect resolved.
\* tableName and username are never sent by the modelled clients.
executeSwitch(tool, args, db) ==
  LET op == args.operation
      lists == (tool = "sierra_manage_indexes" /\ op = Str("get"))
               \/ (tool = "sierra_manage_users" /\ op = Str("list"))
      needsFields == op = Str("create") \/ op = Str("drop")
  IN IF lists
     THEN IF db = "query_fails"
          THEN Return(TRUE, <<ToolCatchLabel(tool), "Query failed: ", "db error">>)
          ELSE Return(FALSE, <<"Found ", "n", " rows.">>)
     ELSE IF needsFields
     THEN Return(TRUE, <<"Error: ", "required fields missing for ", op.v, " operation">>)
     ELSE Return(TRUE, <<"Error: Unknown operation \"", op.v, "\"">>)

\* execute from `await db.connect` to its end: try / catch / finally.
executeFinish(tool, args, db) ==
  IF db = "release_throws"
  THEN Throw(0, <<"Release called on client which has already been released to the pool.">>)
  ELSE IF db = "connect_fails"
  THEN Return(TRUE, <<ToolCatchLabel(tool), "Failed to connect to database: ", "db error">>)
  ELSE executeSwitch(tool, args, db)

\* -------------------------------------------------- the tools/call handler
\* new McpError(code, message).message
McpErrorMessage(code, message) == <<"MCP error ", ToString(code), ": ">> \o message

\* The not-found branch: the McpError thrown when enabledToolsMap has no
\* entry for toolName.
NotFoundError(toolName) ==
  LET wasAvailable == toolName \in AvailableNames
      message == IF wasAvailable
                 THEN <<"Tool \"", toolName, "\" is available but not enabled by current configuration.">>
                 ELSE <<"Tool '", toolName, "' is not enabled or does not exist.">>
  IN Throw(-32601, McpErrorMessage(-32601, message))

\* A catch block that lets the error through.
HandlerCatchRethrows(thrown) == thrown

\* The catch block of the handler: any error becomes an error ToolOutput.
HandlerCatch(thrown) == Return(TRUE, <<"Error: ">> \o thrown.text)

\* The handler up to its first await on the database: look the tool up and
\* start execute.  The result has kind "await" when execute is waiting for
\* the database, else it is what the handler returns.
CallToolStart(enabled, toolName, args) ==
  LET tool == EnabledLookup(enabled, toolName)
  IN IF tool = ""
     THEN HandlerCatch(NotFoundError(toolName))
     ELSE IF tool = "[prototype]"
     THEN HandlerCatch(Throw(0, <<"tool.execute is not a function">>))
     ELSE LET started == executeStart(tool, args)
          IN IF started.kind = "await" THEN started ELSE HandlerCatch(started)

\* Whether CallToolStart invoked tool.execute.
ExecuteInvoked(enabled, toolName) ==
  EnabledLookup(enabled, toolName) \notin {"", "[prototype]"}

\* The handler after the database settled.
CallToolFinish(tool, args, db) ==
  LET out == executeFinish(tool, args, db)
  IN IF out.kind = "throw" THEN HandlerCatch(out) ELSE out

\* How the execute that CallToolFinish awaited ended: it threw ("raised"),
\* its own catch block turned a failure into an output ("failed"), or it
\* returned from the try block ("returned").
ExecuteOutcome(tool, args, db) ==
  LET out == executeFinish(tool, args, db)
  IN IF out.kind = "throw" THEN "raised"
     ELSE IF out.text[1] = ToolCatchLabel(tool) THEN "failed"
     ELSE "returned"

\* The JSON-RPC response the protocol layer builds from what a request
\* handler returned or threw: the result slot or the error slot.
NoBody == [slot |-> "none", isError |-> FALSE, text |-> <<>>, code |-> 0]

ProtocolResponse(outcome) ==
  IF outcome.kind = "return"
  THEN [slot |-> "result", isError |-> outcome.isError, text |-> outcome.text, code |-> 0]
  ELSE [slot |-> "error", isError |-> FALSE, text |-> outcome.text,
        code |-> IF outcome.code # 0 THEN outcome.code ELSE -32603]

\* ------------------------------------------------------------------- state
VARIABLES
  toolsConfig,      \* the tools-config file the process was started with
  enabledTools,     \* this.enabledTools, in order
  transports,       \* runHttp's `transports`: session id -> transport
  tobj,             \* the transport objects created so far: tobj[t].sessionId
  serverTransport,  \* this.server's current transport (Undefined: none)
  handlers,         \* tools/call handlers awaiting the database
  streams,          \* open POST response streams, <<transport, JSON-RPC id>>
  reply,            \* what the process last wrote to a client, and for what
  removed,          \* history: the session ids ever deleted from transports
  proc,             \* "running", "stopping" (a signal arrived), "exited"
  stdio,            \* stdio mode: requests dispatched, handlers, stdout
  dbconn,           \* the DatabaseConnection singleton, poolCache, pg objects
  calls,            \* the executes running on the singleton, by invocation
  resolution,       \* one getConnectionString call: its inputs and result
  boot,             \* start-up: phase, advertised capabilities, warnings
  tx,               \* the transactions of alter_table executes, by invocation
  manage,           \* one call of a manage tool: operation, fields, outcome
  shutdown          \* where observed: the signal received, the sessions live
                    \* when it came that its handlers have not closed on the
                    \* spot, and those never closed before process.exit

vars ==
  <<toolsConfig, enabledTools, transports, tobj, serverTransport, handlers,
    streams, reply, removed, proc, stdio, dbconn, calls, resolution, boot,
    manage, tx, shutdown>>

toolVars == <<toolsConfig, enabledTools>>

signalVars == <<proc, shutdown>>

\* The state of the parts of the process the HTTP routes never touch.
auxVars == <<stdio, dbconn, calls, resolution, boot, manage, tx>>

dbVars == <<dbconn, calls>>

startVars == <<resolution, boot, manage, tx>>

httpVars ==
  <<transports, tobj, serverTransport, handlers, streams, reply, removed>>

Tids == 1..MaxTransports

\* transports[sessionId] as JavaScript evaluates it on a plain object.
Lookup(trs, sessionId) ==
  IF sessionId \in DOMAIN trs THEN trs[sessionId]
  ELSE IF sessionId \in ObjectPrototypeKeys THEN ProtoObject
  ELSE Undefined

\* delete transports[sid]
MapDelete(trs, sid) == [s \in (DOMAIN trs) \ {sid} |-> trs[s]]

\* A generator that returns the same value every time.
randomUUIDConstant(issued) == {UuidPool[1]}

\* sessionIdGenerator: the values randomUUID() can return, given the ids it
\* returned before: one it never returned.  Which fresh value it is does
\* not matter to the server, so the model takes the first unused one.
randomUUID(issued) ==
  IF UUIDs \ issued = {} THEN {}
  ELSE {UuidPool[CHOOSE i \in 1..MaxTransports :
                   /\ UuidPool[i] \notin issued
                   /\ \A j \in 1..(i - 1) : UuidPool[j] \in issued]}

IssuedIds == {tobj[t].sessionId : t \in DOMAIN tobj} \ {NoHeader}

\* An onsessioninitialized that writes back a map read before the other
\* sessions were registered.
onsessioninitializedStale(trs, newSessionId, t) ==
  [s \in {newSessionId} |-> t]

\* onsessioninitialized: transports[newSessionId] = transport
onsessioninitialized(trs, newSessionId, t) ==
  [s \in (DOMAIN trs) \cup {newSessionId} |->
     IF s = newSessionId THEN t ELSE trs[s]]

\* An onclose that leaves the map alone.
oncloseKeepsEntry(trs, sid) == trs

\* transport.onclose: delete the transport's own session id, if present.
onclose(trs, sid) ==
  IF sid # NoHeader /\ Truthy(Lookup(trs, sid)) THEN MapDelete(trs, sid) ELSE trs

\* The request a POST body carries.
Request(method, name, args, id) ==
  [method |-> method, name |-> name, args |-> args, id |-> id]

NoRequest == Request("", "", NoArgs, 0)

\* One record per thing written to a client.  `ev`: "request" when it is
\* written by the run that received the HTTP request, "settle" when a
\* handler that waited for the database finished.  `status` 0: nothing was
\* written.  `wire`: the stream the JSON-RPC body went out on (<<0, 0>>:
\* none, the body was dropped).  `exec`: what tool.execute did for it.
Reply(ev, http, hdr, req, status, sid, body, wire, exec) ==
  [ev |-> ev, http |-> http, hdr |-> hdr, req |-> req, status |-> status,
   sid |-> sid, body |-> body, wire |-> wire, exec |-> exec]

NoWire == <<0, 0>>

\* The process before any request: no session, no handler, no execute.
Quiet ==
  /\ transports = [s \in {} |-> Undefined]
  /\ tobj = <<>>
  /\ serverTransport = Undefined
  /\ handlers = {}
  /\ streams = {}
  /\ reply = Reply("none", "", NoHeader, NoRequest, 0, NoHeader, NoBody, NoWire, "none")
  /\ removed = {}
  /\ proc = "running"
  /\ shutdown = [signal |-> "none", pending |-> {}, unclosed |-> {}]
  /\ stdio = [sent |-> 0, waiting |-> {}, stdout |-> <<>>]
  /\ dbconn = [pool |-> 0, client |-> 0, connectionString |-> "",
               poolCache |-> {}, pools |-> <<>>, clients |-> <<>>]
  /\ calls = [c \in {} |-> 0]
  /\ tx = [c \in {} |-> 0]

\* No manage-tool call is being looked at.
NoManage ==
  [tool |-> "", op |-> "", given |-> <<>>, done |-> FALSE,
   out |-> [isError |-> FALSE, named |-> {}, sql |-> 0, acquired |-> 0,
            released |-> 0]]

\* No getConnectionString call is being looked at.
NoResolution ==
  [arg |-> Absent, cli |-> Absent, env |-> Absent, done |-> FALSE,
   out |-> [threw |-> FALSE, value |-> ""], response |-> NoBody]

\* The process serving after start-up with the allow-list AllowListConfig.
Init ==
  /\ toolsConfig = AllowListConfig
  /\ enabledTools = loadAndFilterTools(toolsConfig)
  /\ boot = [phase |-> "serving",
             capabilities |-> {enabledTools[i] : i \in DOMAIN enabledTools},
             warnings |-> ConfigWarnings(toolsConfig)]
  /\ resolution = NoResolution
  /\ manage = NoManage
  /\ Quiet

Serving == proc # "exited"

\* process.exit(0), or the process dying: its memory is gone.
ProcessGone ==
  /\ proc' = "exited"
  /\ transports' = [s \in {} |-> Undefined]
  /\ tobj' = <<>>
  /\ serverTransport' = Undefined
  /\ handlers' = {}
  /\ streams' = {}
  /\ removed' = {}

\* --------------------------------------------------------- HTTP exchanges
\* The mcp-session-id headers clients send: none, an id the server issued
\* (live or closed), an id it never issued, a prototype key.
Headers == {NoHeader, UnknownId} \cup IssuedIds \cup ObjectPrototypeKeys

\* isInitializeRequest(req.body)
isInitializeRequest(method) == method = "initialize"

RpcMethods == {"initialize", "tools/call"}

\* The first branch of app.post: sessionId && transports[sessionId]
ReuseBranch(hdr) == hdr # NoHeader /\ Truthy(Lookup(transports, hdr))

\* A second branch that forgets to test the header.
InitBranchAnyHeader(hdr, method) == isInitializeRequest(method)

\* The second branch of app.post: !sessionId && isInitializeRequest(body)
InitBranch(hdr, method) == hdr = NoHeader /\ isInitializeRequest(method)

\* A guard that forgets to look the id up.
InvalidSessionHeaderOnly(hdr) == hdr = NoHeader

\* The guard of app.get and app.delete: !sessionId || !transports[sessionId]
InvalidSession(hdr) == hdr = NoHeader \/ ~Truthy(Lookup(transports, hdr))

ResultBody(text) == [slot |-> "result", isError |-> FALSE, text |-> text, code |-> 0]

ErrorBody(code, text) == [slot |-> "error", isError |-> FALSE, text |-> text, code |-> code]

TextBody(text) == [slot |-> "text", isError |-> FALSE, text |-> text, code |-> 0]

\* transport.send(response): the stream the response is written on.  The
\* transport that sends is the one this.server holds (`via`), which looks
\* the JSON-RPC id up among its own open streams; NoWire when the server
\* holds no transport or the transport has no stream for the id.
WireOf(via, id, open) ==
  IF via # Undefined /\ <<via, id>> \in open THEN <<via, id>> ELSE NoWire

\* transport.close() and the onclose chain server.connect installed: the
\* transport's streams end, its session leaves the map, and the shared
\* server forgets its current transport.
CloseTransport(t, trs) ==
  /\ transports' = trs
  /\ removed' = removed \cup ((DOMAIN transports) \ (DOMAIN trs))
  /\ streams' = {w \in streams : w[1] # t}
  /\ serverTransport' = Undefined

\* POST /mcp without a session id, body initialize: a new transport is
\* created, connected to the shared server and handles the request, which
\* generates the session id and registers the transport.
PostInitialize ==
  /\ Serving
  /\ Len(tobj) < MaxTransports
  /\ \E hdr \in Headers, newSessionId \in randomUUID(IssuedIds) :
       LET t == Len(tobj) + 1
       IN /\ ~ReuseBranch(hdr)
          /\ InitBranch(hdr, "initialize")
          /\ tobj' = Append(tobj, [sessionId |-> newSessionId])
          /\ serverTransport' = t
          /\ transports' = onsessioninitialized(transports, newSessionId, t)
          /\ reply' = Reply("request", "POST", hdr,
                            Request("initialize", "", NoArgs, 1), 200,
                            newSessionId, ResultBody(<<"InitializeResult">>),
                            <<t, 1>>, "none")
  /\ UNCHANGED <<toolVars, auxVars, handlers, streams, removed, signalVars>>

\* POST /mcp that takes neither branch: 400, code -32000.
PostRejected ==
  /\ Serving
  /\ \E hdr \in Headers, method \in RpcMethods :
       /\ ~ReuseBranch(hdr)
       /\ ~InitBranch(hdr, method)
       /\ reply' = Reply("request", "POST", hdr, Request(method, "", NoArgs, 1),
                         400, NoHeader,
                         ErrorBody(-32000, <<"Bad Request: No valid session ID provided">>),
                         NoWire, "none")
  /\ UNCHANGED <<toolVars, auxVars, transports, tobj, serverTransport, handlers,
                 streams, removed, signalVars>>

\* POST /mcp whose transports[sessionId] is truthy but no transport (the
\* session id is a prototype key): calling handleRequest on it throws a
\* TypeError, which the catch block answers with 500, code -32603.
PostNotATransport ==
  /\ Serving
  /\ \E hdr \in Headers, method \in RpcMethods :
       /\ ReuseBranch(hdr)
       /\ hdr \notin DOMAIN transports
       /\ reply' = Reply("request", "POST", hdr, Request(method, "", NoArgs, 1),
                         500, NoHeader,
                         ErrorBody(-32603, <<"Internal server error">>),
                         NoWire, "none")
  /\ UNCHANGED <<toolVars, auxVars, transports, tobj, serverTransport, handlers,
                 streams, removed, signalVars>>

\* POST initialize on a live session: the transport is already initialized
\* and rejects the request, 400, code -32600.
PostReinitialize ==
  /\ Serving
  /\ \E hdr \in DOMAIN transports :
       reply' = Reply("request", "POST", hdr, Request("initialize", "", NoArgs, 1),
                      400, NoHeader,
                      ErrorBody(-32600, <<"Invalid Request: Server already initialized">>),
                      NoWire, "none")
  /\ UNCHANGED <<toolVars, auxVars, transports, tobj, serverTransport, handlers,
                 streams, removed, signalVars>>

\* POST of a notification on a live session: 202, no JSON-RPC response.
PostNotification ==
  /\ Serving
  /\ \E hdr \in DOMAIN transports :
       reply' = Reply("request", "POST", hdr,
                      Request("notifications/initialized", "", NoArgs, 0),
                      202, NoHeader, NoBody, NoWire, "none")
  /\ UNCHANGED <<toolVars, auxVars, transports, tobj, serverTransport, handlers,
                 streams, removed, signalVars>>

\* The JSON-RPC id of the next request sent on transport t: ids are opaque
\* to the server, and a client does not reuse the id of an exchange that is
\* still open, so clients take the smallest id that is free.
FreeIds(t) ==
  LET free == {i \in RpcIds : <<t, i>> \notin streams}
  IN {i \in free : \A j \in free : i <= j}

\* A request answered within the run that received it: the POST opens the
\* stream <<t, id>>, and the response goes out through the server's
\* current transport.
AnswerNow(hdr, t, req, response, exec) ==
  LET open == streams \cup {<<t, req.id>>}
      wire == WireOf(serverTransport, req.id, open)
  IN /\ streams' = open \ {wire}
     /\ reply' = Reply("request", "POST", hdr, req,
                       IF wire = NoWire THEN 0 ELSE 200, NoHeader, response,
                       wire, exec)

\* POST tools/list on a live session.
PostToolsList ==
  /\ Serving
  /\ \E hdr \in DOMAIN transports :
     \E id \in FreeIds(transports[hdr]) :
       /\ AnswerNow(hdr, transports[hdr], Request("tools/list", "", NoArgs, id),
                    ResultBody(enabledTools), "none")
  /\ UNCHANGED <<toolVars, auxVars, transports, tobj, serverTransport, handlers,
                 removed, signalVars>>

\* POST tools/call on a live session whose handler ends without waiting
\* for the database: the tool is not found, or execute throws at once.
PostToolsCallNow(inputs) ==
  /\ Serving
  /\ \E hdr \in DOMAIN transports, input \in inputs :
     \E id \in FreeIds(transports[hdr]) :
       LET name == input[1]
           args == input[2]
           start == CallToolStart(enabledTools, name, args)
       IN /\ start.kind # "await"
          /\ AnswerNow(hdr, transports[hdr],
                       Request("tools/call", name, args, id),
                       ProtocolResponse(start),
                       IF ExecuteInvoked(enabledTools, name)
                       THEN "raised" ELSE "not_run")
  /\ UNCHANGED <<toolVars, auxVars, transports, tobj, serverTransport, handlers,
                 removed, signalVars>>

\* POST tools/call on a live session whose execute goes on to await the
\* database: the handler stays in flight; it captured the server's current
\* transport for its response.
PostToolsCallAwait(inputs) ==
  /\ Serving
  /\ Cardinality(handlers) < MaxInflight
  /\ \E hdr \in DOMAIN transports, input \in inputs :
     \E id \in FreeIds(transports[hdr]) :
       LET name == input[1]
           args == input[2]
           t == transports[hdr]
           start == CallToolStart(enabledTools, name, args)
       IN /\ start.kind = "await"
          /\ handlers' = handlers \cup
               {[tid |-> t, id |-> id, tool |-> name, args |-> args,
                 via |-> serverTransport]}
          /\ streams' = streams \cup {<<t, id>>}
          /\ reply' = Reply("request", "POST", hdr,
                            Request("tools/call", name, args, id), 200,
                            NoHeader, NoBody, NoWire, "started")
  /\ UNCHANGED <<toolVars, auxVars, transports, tobj, serverTransport, removed,
                 signalVars>>

\* The database settles for a handler in flight: execute ends, the handler
\* returns, and the response goes out through the transport it captured.
CallSettle ==
  /\ Serving
  /\ \E h \in handlers, db \in DbOutcomes :
       LET out == CallToolFinish(h.tool, h.args, db)
           wire == WireOf(h.via, h.id, streams)
       IN /\ handlers' = handlers \ {h}
          /\ streams' = streams \ {wire}
          /\ reply' = Reply("settle", "POST", tobj[h.tid].sessionId,
                            Request("tools/call", h.tool, h.args, h.id),
                            IF wire = NoWire THEN 0 ELSE 200, NoHeader,
                            ProtocolResponse(out), wire,
                            ExecuteOutcome(h.tool, h.args, db))
  /\ UNCHANGED <<toolVars, auxVars, transports, tobj, serverTransport, removed,
                 signalVars>>

\* GET or DELETE /mcp without a session id or with one that transports does
\* not hold: 400 with a text body.
GetOrDeleteRejected ==
  /\ Serving
  /\ \E hdr \in Headers, http \in {"GET", "DELETE"} :
       /\ InvalidSession(hdr)
       /\ reply' = Reply("request", http, hdr, NoRequest, 400, NoHeader,
                         TextBody(<<"Invalid or missing session ID">>),
                         NoWire, "none")
  /\ UNCHANGED <<toolVars, auxVars, transports, tobj, serverTransport, handlers,
                 streams, removed, signalVars>>

\* GET /mcp on a live session: the transport opens the notification stream.
GetSubscribe ==
  /\ Serving
  /\ \E hdr \in DOMAIN transports :
       reply' = Reply("request", "GET", hdr, NoRequest, 200, NoHeader,
                      TextBody(<<"text/event-stream">>), NoWire, "none")
  /\ UNCHANGED <<toolVars, auxVars, transports, tobj, serverTransport, handlers,
                 streams, removed, signalVars>>

\* What happens to a promise rejection nobody handles in app.get: the
\* process ends (Node >= 15 with a router that ignores the promise), or the
\* router turns it into a 500.
UnhandledRejectionOutcomes == {"exit", "500"}

\* GET /mcp that passes the guard with something that is no transport (the
\* session id is a prototype key): handleRequest is called on it outside
\* any try block.
GetNotATransport ==
  /\ Serving
  /\ \E hdr \in Headers, outcome \in UnhandledRejectionOutcomes :
       /\ ~InvalidSession(hdr)
       /\ hdr \notin DOMAIN transports
       /\ IF outcome = "exit"
          THEN ProcessGone /\ shutdown' = shutdown
          ELSE UNCHANGED <<transports, tobj, serverTransport, handlers,
                           streams, removed, signalVars>>
       /\ reply' = Reply("request", "GET", hdr, NoRequest,
                         IF outcome = "exit" THEN 0 ELSE 500, NoHeader,
                         NoBody, NoWire, "none")
  /\ UNCHANGED <<toolVars, auxVars>>

\* DELETE /mcp that passes the guard with something that is no transport:
\* the TypeError is caught, 500 with a text body.
DeleteNotATransport ==
  /\ Serving
  /\ \E hdr \in Headers :
       /\ ~InvalidSession(hdr)
       /\ hdr \notin DOMAIN transports
       /\ reply' = Reply("request", "DELETE", hdr, NoRequest, 500, NoHeader,
                         TextBody(<<"Error processing session termination">>),
                         NoWire, "none")
  /\ UNCHANGED <<toolVars, auxVars, transports, tobj, serverTransport, handlers,
                 streams, removed, signalVars>>

\* The reply to a DELETE that closed its session.
DeleteReply == ResultBody(<<"null">>)

\* DELETE /mcp on a live session: the transport closes itself, and its
\* onclose removes the session from the map.
DeleteSession ==
  /\ Serving
  /\ \E hdr \in DOMAIN transports :
       LET t == transports[hdr]
       IN /\ CloseTransport(t, onclose(transports, tobj[t].sessionId))
          /\ reply' = Reply("request", "DELETE", hdr, NoRequest, 200, NoHeader,
                            DeleteReply, NoWire, "none")
  /\ UNCHANGED <<toolVars, auxVars, tobj, handlers, signalVars>>

\* ---------------------------------------------------------------- shutdown
\* runHttp's SIGINT loop after k iterations: `for (const sessionId in
\* transports)` visits the keys in insertion order; each iteration closes
\* the transport (whose onclose deletes the key) and deletes the key again.
RECURSIVE LoopClosed(_, _)
LoopClosed(trs, k) ==
  IF k = 0 \/ DOMAIN trs = {} THEN trs
  ELSE LET sessionId == CHOOSE s \in DOMAIN trs :
                          \A o \in DOMAIN trs : trs[s] <= trs[o]
       IN LoopClosed(MapDelete(onclose(trs, tobj[trs[sessionId]].sessionId),
                               sessionId),
                     k - 1)

\* this.server.close() in cleanup(): the shared server closes the transport
\* it is connected to, whose onclose deletes that session; the other
\* transports are not the server's and stay.
serverClose(trs) ==
  IF \E s \in DOMAIN trs : trs[s] = serverTransport
  THEN onclose(trs, tobj[serverTransport].sessionId)
  ELSE trs

\* What an observer of the shutdown notes down; unobserved, nothing.
Observe(observed, noted) ==
  shutdown' = IF observed THEN noted ELSE shutdown

\* SIGINT.  Two handlers run: the constructor's (cleanup, then exit) and
\* runHttp's (the loop, then cleanup, then exit).  The loop awaits nothing
\* but transport.close(), so no exchange interleaves with it.  cleanup()
\* waits for pool.end() of every cached pool: the process stays up, and
\* serves exchanges, until one of the handlers gets to process.exit(0).
SigintLoopOn(observed) ==
  /\ proc = "running"
  /\ proc' = "stopping"
  /\ LET trs == LoopClosed(transports, Cardinality(DOMAIN transports))
     IN /\ transports' = trs
        /\ Observe(observed, [signal |-> "SIGINT", pending |-> DOMAIN trs,
                               unclosed |-> {}])
        /\ removed' = removed \cup ((DOMAIN transports) \ (DOMAIN trs))
        /\ streams' = {w \in streams : \E s \in DOMAIN trs : trs[s] = w[1]}
        /\ serverTransport' =
             IF DOMAIN transports = {} THEN serverTransport ELSE Undefined
  /\ UNCHANGED <<toolVars, auxVars, tobj, handlers, reply>>

\* SIGINT when no pool is cached: the constructor's handler needs only a
\* few microtask turns to reach process.exit(0) and can get there before
\* the loop has visited every key.  The loop's first close() has run by
\* then, and cleanup() has closed the server's transport.
SigintExitOn(observed) ==
  /\ proc = "running"
  /\ \E k \in 0..Cardinality(DOMAIN transports) :
       /\ (DOMAIN transports # {}) => k >= 1
       /\ Observe(observed,
                  [signal |-> "SIGINT", pending |-> {},
                   unclosed |-> DOMAIN serverClose(LoopClosed(transports, k))])
  /\ ProcessGone
  /\ UNCHANGED <<toolVars, auxVars, reply>>

\* SIGTERM: only the constructor registered a handler; it waits in cleanup.
SigtermOn(observed) ==
  /\ proc = "running"
  /\ proc' = "stopping"
  /\ Observe(observed, [signal |-> "SIGTERM", pending |-> DOMAIN transports,
                         unclosed |-> {}])
  /\ UNCHANGED <<toolVars, auxVars, transports, tobj, serverTransport, handlers,
                 streams, reply, removed>>

\* The end of cleanup(): server.close() closes the transport the server
\* holds, if any, and the handler calls process.exit(0).
ExitOn(observed) ==
  /\ proc = "stopping"
  /\ Observe(observed,
             [shutdown EXCEPT
                !.pending = {},
                !.unclosed = shutdown.pending \cap DOMAIN serverClose(transports)])
  /\ ProcessGone
  /\ UNCHANGED <<toolVars, auxVars, reply>>

SigintLoop == SigintLoopOn(FALSE)

SigintExit == SigintExitOn(FALSE)

Sigterm == SigtermOn(FALSE)

Exit == ExitOn(FALSE)

Next ==
  \/ PostInitialize
  \/ PostRejected
  \/ PostNotATransport
  \/ PostReinitialize
  \/ PostNotification
  \/ PostToolsList
  \/ PostToolsCallNow(LifecycleInputs)
  \/ PostToolsCallAwait(LifecycleInputs)
  \/ CallSettle
  \/ GetOrDeleteRejected
  \/ GetSubscribe
  \/ GetNotATransport
  \/ DeleteNotATransport
  \/ DeleteSession
  \/ SigintLoop
  \/ SigintExit
  \/ Sigterm
  \/ Exit

Spec == Init /\ [][Next]_vars

\* Sessions opened, used and ended, and the shutdown observed.
NextShutdown ==
  \/ PostInitialize
  \/ PostToolsList
  \/ GetSubscribe
  \/ DeleteSession
  \/ SigintLoopOn(TRUE)
  \/ SigintExitOn(TRUE)
  \/ SigtermOn(TRUE)
  \/ ExitOn(TRUE)

SpecShutdown == Init /\ [][NextShutdown]_vars

\* The dispatch pipeline on its own: sessions are opened and closed, and
\* clients send every tools/call input.
NextDispatch ==
  \/ PostInitialize
  \/ PostToolsList
  \/ PostToolsCallNow(CallInputs)
  \/ PostToolsCallAwait(CallInputs)
  \/ CallSettle
  \/ DeleteSession

SpecDispatch == Init /\ [][NextDispatch]_vars

\* -------------------------------------------------------------- stdio mode
\* runStdio: one StdioServerTransport, connected to the server once.  Each
\* request read from stdin is handed to its handler at once, and a response
\* is written to stdout when its handler ends.  stdio.sent counts the
\* requests dispatched (their JSON-RPC ids are 1, 2, ... in dispatch
\* order), stdio.waiting holds the handlers awaiting the database and
\* stdio.stdout the responses written, in order.
MaxStdioRequests == 3

StdoutLine(id, response) == [id |-> id, body |-> response]

\* A tools/call read from stdin whose handler ends without waiting for the
\* database.
StdioCallNow(inputs) ==
  /\ Serving
  /\ stdio.sent < MaxStdioRequests
  /\ \E input \in inputs :
       LET start == CallToolStart(enabledTools, input[1], input[2])
           id == stdio.sent + 1
       IN /\ start.kind # "await"
          /\ stdio' = [stdio EXCEPT
               !.sent = id,
               !.stdout = Append(@, StdoutLine(id, ProtocolResponse(start)))]
  /\ UNCHANGED <<toolVars, httpVars, signalVars, dbVars, startVars>>

\* A tools/call read from stdin whose execute goes on to await the
\* database.
StdioCallAwait(inputs) ==
  /\ Serving
  /\ stdio.sent < MaxStdioRequests
  /\ Cardinality(stdio.waiting) < MaxInflight
  /\ \E input \in inputs :
       LET start == CallToolStart(enabledTools, input[1], input[2])
           id == stdio.sent + 1
       IN /\ start.kind = "await"
          /\ stdio' = [stdio EXCEPT
               !.sent = id,
               !.waiting = @ \cup {[id |-> id, tool |-> input[1], args |-> input[2]]}]
  /\ UNCHANGED <<toolVars, httpVars, signalVars, dbVars, startVars>>

\* The database settles for a handler of stdio mode: its response is
\* written to stdout.
StdioSettle ==
  /\ Serving
  /\ \E h \in stdio.waiting, db \in DbOutcomes :
       stdio' = [stdio EXCEPT
         !.waiting = @ \ {h},
         !.stdout = Append(@, StdoutLine(h.id,
                       ProtocolResponse(CallToolFinish(h.tool, h.args, db))))]
  /\ UNCHANGED <<toolVars, httpVars, signalVars, dbVars, startVars>>

NextStdio ==
  \/ StdioCallNow(CallInputs)
  \/ StdioCallAwait(CallInputs)
  \/ StdioSettle

SpecStdio == Init /\ [][NextStdio]_vars

\* ------------------------------------------------- the database singleton
\* DatabaseConnection (utils/connection.ts, reproduced in
\* docs/07-API-ENDPOINTS.md).  Every execute works on the one instance
\* getInstance() returns.  dbconn.pool, .client and .connectionString are
\* the instance's fields (0: null), dbconn.poolCache the module's Map as a
\* set of <<connection string, pool>>, dbconn.pools[p] and dbconn.clients[k]
\* the pg Pool and PoolClient objects created so far.  An execute is
\* suspended only where it awaits pg: pool.connect(), client.query(),
\* pool.end().
MaxCalls == 2

ConnectionStrings == {"postgresql://db-a", "postgresql://db-b"}

CallIds == 1..MaxCalls

\* disconnect(): release the instance's client, if any, and forget the
\* connection string; this.pool stays.
disconnect(d) ==
  [d EXCEPT !.clients = IF d.client # 0
                        THEN [@ EXCEPT ![d.client].released = TRUE] ELSE @,
            !.client = 0,
            !.connectionString = ""]

\* poolCache.get(connString), 0 if absent.
CachedPool(d, connString) ==
  IF \E e \in d.poolCache : e[1] = connString
  THEN (CHOOSE e \in d.poolCache : e[1] = connString)[2]
  ELSE 0

\* connect() from its start to `await this.pool.connect()`, when the fast
\* path `this.pool && this.connectionString === connString` is not taken.
connectBegin(d, connString) ==
  LET d1 == IF d.pool # 0 THEN disconnect(d) ELSE d
      cached == CachedPool(d1, connString)
      p == IF cached # 0 THEN cached ELSE Len(d1.pools) + 1
  IN [d1 EXCEPT
        !.connectionString = connString,
        !.pool = p,
        !.pools = IF cached # 0 THEN @
                  ELSE Append(@, [cs |-> connString, ended |-> FALSE]),
        !.poolCache = IF cached # 0 THEN @ ELSE @ \cup {<<connString, p>>}]

\* A finished execute: its output, after the finally block ran disconnect().
Finished(call, out) == [call EXCEPT !.pc = "done", !.out = out]

\* db.query() up to `await this.client.query(...)`, on the instance as it is
\* when the call gets there: the call is suspended in the query, or
\* 'Not connected to database' is thrown, caught by the tool and the
\* finally block disconnects.
queryBegin(d, call) ==
  IF d.client = 0 \/ d.pool = 0
  THEN [d |-> disconnect(d), call |-> Finished(call, "Not connected to database")]
  ELSE [d |-> d, call |-> [call EXCEPT !.pc = "query", !.ran = d.client]]

\* The catch block of connect() up to `await this.pool.end()`: the
\* instance's client is released, the cache entry of the instance's
\* connection string deleted and the instance's pool ended.
connectCatch(d, call) ==
  LET d1 == [d EXCEPT !.clients = IF d.client # 0
                                  THEN [@ EXCEPT ![d.client].released = TRUE]
                                  ELSE @,
                      !.client = 0]
  IN IF d1.pool # 0
     THEN [d |-> [d1 EXCEPT
                    !.poolCache = {e \in @ : e[1] # d1.connectionString},
                    !.pools = [@ EXCEPT ![d1.pool].ended = TRUE]],
           call |-> [call EXCEPT !.pc = "end", !.pool = d1.pool]]
     ELSE [d |-> disconnect(d1),
           call |-> Finished(call, "Failed to connect to database")]

\* A tool's execute starts: it resolves its connection string and calls
\* db.connect().
ExecuteStart ==
  /\ Serving
  /\ \E c \in CallIds \ DOMAIN calls, connString \in ConnectionStrings :
       LET call == [pc |-> "connect", cs |-> connString, pool |-> 0,
                    ran |-> 0, out |-> ""]
       IN IF dbconn.pool # 0 /\ dbconn.connectionString = connString
          THEN LET q == queryBegin(dbconn, call)
               IN /\ dbconn' = q.d
                  /\ calls' = [k \in DOMAIN calls \cup {c} |->
                                 IF k = c THEN q.call ELSE calls[k]]
          ELSE LET d == connectBegin(dbconn, connString)
               IN /\ dbconn' = d
                  /\ calls' = [k \in DOMAIN calls \cup {c} |->
                                 IF k = c THEN [call EXCEPT !.pool = d.pool]
                                 ELSE calls[k]]
  /\ UNCHANGED <<toolVars, httpVars, signalVars, stdio, startVars>>

\* pool.connect() settles: this.client is assigned and SELECT 1 sent on it,
\* or the catch block runs.
PoolConnectSettle ==
  /\ Serving
  /\ \E c \in DOMAIN calls, ok \in BOOLEAN :
       /\ calls[c].pc = "connect"
       /\ ok => ~dbconn.pools[calls[c].pool].ended
       /\ IF ok
          THEN /\ dbconn' = [dbconn EXCEPT
                    !.clients = Append(@, [pool |-> calls[c].pool,
                                           released |-> FALSE]),
                    !.client = Len(dbconn.clients) + 1]
               /\ calls' = [calls EXCEPT ![c].pc = "select"]
          ELSE LET r == connectCatch(dbconn, calls[c])
               IN dbconn' = r.d /\ calls' = [calls EXCEPT ![c] = r.call]
  /\ UNCHANGED <<toolVars, httpVars, signalVars, stdio, startVars>>

\* SELECT 1 settles: connect() returns and the tool issues its query, or
\* the catch block runs.
SelectSettle ==
  /\ Serving
  /\ \E c \in DOMAIN calls, ok \in BOOLEAN :
       /\ calls[c].pc = "select"
       /\ LET r == IF ok THEN queryBegin(dbconn, calls[c])
                   ELSE connectCatch(dbconn, calls[c])
          IN dbconn' = r.d /\ calls' = [calls EXCEPT ![c] = r.call]
  /\ UNCHANGED <<toolVars, httpVars, signalVars, stdio, startVars>>

\* pool.end() of the catch block settles: this.pool = null, connect()
\* throws, the tool's catch makes an output and finally disconnects.
PoolEndSettle ==
  /\ Serving
  /\ \E c \in DOMAIN calls :
       /\ calls[c].pc = "end"
       /\ dbconn' = disconnect([dbconn EXCEPT !.pool = 0])
       /\ calls' = [calls EXCEPT
                      ![c] = Finished(@, "Failed to connect to database")]
  /\ UNCHANGED <<toolVars, httpVars, signalVars, stdio, startVars>>

\* The tool's query settles: the tool returns its output (or the output of
\* its catch block) and finally disconnects.
QuerySettle ==
  /\ Serving
  /\ \E c \in DOMAIN calls, ok \in BOOLEAN :
       /\ calls[c].pc = "query"
       /\ dbconn' = disconnect(dbconn)
       /\ calls' = [calls EXCEPT
                      ![c] = Finished(@, IF ok THEN "rows" ELSE "Query failed")]
  /\ UNCHANGED <<toolVars, httpVars, signalVars, stdio, startVars>>

NextDb ==
  \/ ExecuteStart
  \/ PoolConnectSettle
  \/ SelectSettle
  \/ PoolEndSettle
  \/ QuerySettle

SpecDb == Init /\ [][NextDb]_vars

\* ------------------------------------------------------------- transactions
\* executeAlterTable runs its operations inside db.transaction().  An
\* execute that sent its first statement (pc "query") may be one of these:
\* the statement is then the BEGIN of transaction().  tx[c] notes, for such
\* an invocation, the client BEGIN succeeded on (`begun`), the client the
\* callback was handed (`cb`), the operations applied so far, and the
\* clients COMMIT and ROLLBACK were sent on (0: not sent) and whether
\* COMMIT succeeded.
NumOperations == 2

NoTx ==
  [begun |-> 0, cb |-> 0, ops |-> 0, commitOn |-> 0, committed |-> FALSE,
   rollbackOn |-> 0]

\* The catch block of transaction(): `await this.client.query('ROLLBACK')` on
\* the instance's client as it is now; with this.client null the TypeError
\* leaves the catch block, executeAlterTable's catch wraps it and the
\* finally block disconnects.
txCatch(d, call, t) ==
  IF d.client # 0
  THEN [d |-> d, call |-> [call EXCEPT !.pc = "rollback"],
        t |-> [t EXCEPT !.rollbackOn = d.client]]
  ELSE [d |-> disconnect(d), call |-> Finished(call, "Failed to alter table"),
        t |-> t]

\* `await this.client.query('COMMIT')` after the callback returned.
txCommit(d, call, t) ==
  IF d.client # 0
  THEN [d |-> d, call |-> [call EXCEPT !.pc = "commit"],
        t |-> [t EXCEPT !.commitOn = d.client]]
  ELSE txCatch(d, call, t)

\* The three variables after a step of invocation c.
TxStep(c, r) ==
  /\ dbconn' = r.d
  /\ calls' = [calls EXCEPT ![c] = r.call]
  /\ tx' = [k \in DOMAIN tx \cup {c} |-> IF k = c THEN r.t ELSE tx[k]]

\* BEGIN settles: callback(this.client) starts and sends its first
\* operation on the client it was handed, or the catch block runs.
BeginSettle ==
  /\ Serving
  /\ \E c \in DOMAIN calls, ok \in BOOLEAN :
       /\ calls[c].pc = "query"
       /\ c \notin DOMAIN tx
       /\ LET t == [NoTx EXCEPT !.begun = IF ok THEN calls[c].ran ELSE 0,
                                !.cb = IF ok THEN dbconn.client ELSE 0]
          IN TxStep(c, IF ok /\ dbconn.client # 0
                       THEN [d |-> dbconn,
                             call |-> [calls[c] EXCEPT !.pc = "callback"],
                             t |-> t]
                       ELSE txCatch(dbconn, calls[c], t))
  /\ UNCHANGED <<toolVars, httpVars, signalVars, stdio, resolution, boot, manage>>

\* An ALTER TABLE statement of the callback settles: the next one is sent,
\* or COMMIT, or the catch block runs.
OperationSettle ==
  /\ Serving
  /\ \E c \in DOMAIN tx, ok \in BOOLEAN :
       /\ calls[c].pc = "callback"
       /\ LET t == [tx[c] EXCEPT !.ops = IF ok THEN @ + 1 ELSE @]
          IN TxStep(c, IF ~ok THEN txCatch(dbconn, calls[c], t)
                       ELSE IF t.ops < NumOperations
                       THEN [d |-> dbconn, call |-> calls[c], t |-> t]
                       ELSE txCommit(dbconn, calls[c], t))
  /\ UNCHANGED <<toolVars, httpVars, signalVars, stdio, resolution, boot, manage>>

\* COMMIT settles: transaction() returns and the finally block disconnects,
\* or the catch block runs.
CommitSettle ==
  /\ Serving
  /\ \E c \in DOMAIN tx, ok \in BOOLEAN :
       /\ calls[c].pc = "commit"
       /\ TxStep(c, IF ok
                    THEN [d |-> disconnect(dbconn),
                          call |-> Finished(calls[c], "altered"),
                          t |-> [tx[c] EXCEPT !.committed = TRUE]]
                    ELSE txCatch(dbconn, calls[c], tx[c]))
  /\ UNCHANGED <<toolVars, httpVars, signalVars, stdio, resolution, boot, manage>>

\* ROLLBACK settles: transaction() throws, executeAlterTable's catch wraps
\* the error and the finally block disconnects.
RollbackSettle ==
  /\ Serving
  /\ \E c \in DOMAIN tx :
       /\ calls[c].pc = "rollback"
       /\ TxStep(c, [d |-> disconnect(dbconn),
                     call |-> Finished(calls[c], "Failed to alter table"),
                     t |-> tx[c]])
  /\ UNCHANGED <<toolVars, httpVars, signalVars, stdio, resolution, boot, manage>>

NextTx ==
  \/ NextDb
  \/ BeginSettle
  \/ OperationSettle
  \/ CommitSettle
  \/ RollbackSettle

SpecTx == Init /\ [][NextTx]_vars

\* --------------------------------------------- connection-string resolution
\* The values the per-call argument, --connection-string and
\* POSTGRES_CONNECTION_STRING can have: not given, empty, or a string.
ConnectionValues ==
  {Absent, Str(""), Str("postgresql://arg"), Str("postgresql://cli"),
   Str("postgresql://env")}

\* A process started with some option and environment values, in which a
\* tool is about to be called with some connectionString argument.
InitResolve ==
  /\ toolsConfig = AllowListConfig
  /\ enabledTools = loadAndFilterTools(toolsConfig)
  /\ boot = [phase |-> "serving",
             capabilities |-> {enabledTools[i] : i \in DOMAIN enabledTools},
             warnings |-> ConfigWarnings(toolsConfig)]
  /\ manage = NoManage
  /\ \E a \in ConnectionValues, c \in ConnectionValues, e \in ConnectionValues :
       resolution = [NoResolution EXCEPT !.arg = a, !.cli = c, !.env = e]
  /\ Quiet

\* The tool's execute calls getConnectionStringVal(connStringArg); what it
\* throws leaves execute and is answered by the catch block of the call
\* handler.
Resolve ==
  /\ Serving
  /\ ~resolution.done
  /\ LET r == getConnectionStringOf(resolution.arg, resolution.cli,
                                    resolution.env)
     IN resolution' = [resolution EXCEPT
          !.done = TRUE,
          !.out = r,
          !.response = IF r.threw
                       THEN ProtocolResponse(HandlerCatch(Throw(-32602, <<r.value>>)))
                       ELSE NoBody]
  /\ UNCHANGED <<toolVars, httpVars, signalVars, stdio, dbVars, boot, manage, tx>>

NextResolve == Resolve

SpecResolve == InitResolve /\ [][NextResolve]_vars

\* ------------------------------------------------------------------ start-up
\* The process as main() finds it: nothing constructed, --tools-config
\* absent or pointing at some file.
InitBoot ==
  /\ toolsConfig \in {NoToolsConfig} \cup FileConfigs
  /\ enabledTools = <<>>
  /\ boot = [phase |-> "new", capabilities |-> {}, warnings |-> {}]
  /\ resolution = NoResolution
  /\ manage = NoManage
  /\ Quiet

\* new SierraDBServer(allTools): loadAndFilterTools, then the Server is
\* created with capabilities.tools built from this.enabledTools.
Construct ==
  /\ proc = "running"
  /\ boot.phase = "new"
  /\ enabledTools' = loadAndFilterTools(toolsConfig)
  /\ boot' = [phase |-> "constructed",
              capabilities |-> {enabledTools'[i] : i \in DOMAIN enabledTools'},
              warnings |-> ConfigWarnings(toolsConfig)]
  /\ UNCHANGED <<toolsConfig, httpVars, signalVars, stdio, dbVars, resolution,
                 manage, tx>>

\* runStdio / runHttp: loadAndFilterTools once more, then the transport is
\* connected or the port is listened on.
Run ==
  /\ proc = "running"
  /\ boot.phase = "constructed"
  /\ enabledTools' = loadAndFilterTools(toolsConfig)
  /\ boot' = [boot EXCEPT !.phase = "serving",
                          !.warnings = @ \cup ConfigWarnings(toolsConfig)]
  /\ UNCHANGED <<toolsConfig, httpVars, signalVars, stdio, dbVars, resolution,
                 manage, tx>>

\* Somebody rewrites the file --tools-config points at.
ConfigFileChanges ==
  /\ proc = "running"
  /\ toolsConfig.given
  /\ toolsConfig' \in FileConfigs \ {toolsConfig}
  /\ UNCHANGED <<enabledTools, httpVars, signalVars, auxVars>>

NextBoot ==
  \/ Construct
  \/ Run
  \/ ConfigFileChanges

SpecBoot == InitBoot /\ [][NextBoot]_vars

\* ------------------------------------------- operation-specific fields
\* The tools whose operations have fields of their own.
ManageTools ==
  {"sierra_manage_indexes", "sierra_manage_users", "sierra_manage_constraints",
   "sierra_manage_functions"}

\* z.enum([...]) of `operation` in each tool's input schema.
Operations(tool) ==
  CASE tool = "sierra_manage_indexes" ->
         {"get", "create", "drop", "reindex", "analyze_usage"}
    [] tool = "sierra_manage_users" ->
         {"create", "drop", "alter", "grant", "revoke", "get_permissions", "list"}
    [] tool = "sierra_manage_constraints" ->
         {"get", "create_fk", "drop_fk", "create", "drop"}
    [] tool = "sierra_manage_functions" -> {"get", "create", "drop"}

\* The fields the operations of a tool test.
ManageFields(tool) ==
  CASE tool = "sierra_manage_indexes" ->
         {"indexName", "tableName", "columns", "type", "target"}
    [] tool = "sierra_manage_users" ->
         {"username", "permissions", "target", "targetType"}
    [] tool = "sierra_manage_constraints" ->
         {"constraintName", "tableName", "columnNames", "referencedTable",
          "referencedColumns", "constraintTypeCreate", "checkExpression"}
    [] tool = "sierra_manage_functions" ->
         {"functionName", "parameters", "returnType", "functionBody"}

\* Fields declared z.array(...); the others are strings.
ArrayFields == {"columns", "permissions", "columnNames", "referencedColumns"}

\* What a client sends for a field: nothing, "" or [], or a value; for
\* constraintTypeCreate the value is one of the enum's.
FieldValues == {"absent", "empty", "set"}

ConstraintTypes == {"absent", "unique", "check", "primary_key"}

\* !field : undefined and "" are falsy, [] is not.
Falsy(given, field) ==
  IF field \in ArrayFields
  THEN given[field] = "absent"
  ELSE given[field] \in {"absent", "empty"}

\* The fields the input schema's descriptions call "required for" the
\* operation.
RequiredFields(tool, op) ==
  CASE tool = "sierra_manage_indexes" /\ op = "create" ->
         {"indexName", "tableName", "columns"}
    [] tool = "sierra_manage_indexes" /\ op = "drop" -> {"indexName"}
    [] tool = "sierra_manage_indexes" /\ op = "reindex" -> {"type", "target"}
    [] tool = "sierra_manage_users" /\ op # "list" -> {"username"}
    [] tool = "sierra_manage_constraints" /\ op = "create_fk" ->
         {"constraintName", "tableName", "columnNames", "referencedTable",
          "referencedColumns"}
    [] tool = "sierra_manage_constraints" /\ op \in {"drop_fk", "create", "drop"} ->
         {"constraintName", "tableName"}
    [] tool = "sierra_manage_functions" /\ op = "create" ->
         {"functionName", "parameters", "returnType", "functionBody"}
    [] tool = "sierra_manage_functions" /\ op = "drop" -> {"functionName"}
    [] OTHER -> {}

\* The early return of a case: the fields its message names.
Rejected(names) == [rejected |-> TRUE, named |-> names]

Accepted == [rejected |-> FALSE, named |-> {}]

\* The `if (!...) return {isError: true}` tests at the head of each case of
\* the four switch statements.
OperationCheck(tool, op, given) ==
  CASE tool = "sierra_manage_indexes" /\ op = "create" ->
         IF \/ Falsy(given, "indexName") \/ Falsy(given, "tableName")
            \/ Falsy(given, "columns") \/ given["columns"] = "empty"
         THEN Rejected({"indexName", "tableName", "columns"}) ELSE Accepted
    [] tool = "sierra_manage_indexes" /\ op = "drop" ->
         IF Falsy(given, "indexName") THEN Rejected({"indexName"}) ELSE Accepted
    [] tool = "sierra_manage_indexes" /\ op = "reindex" ->
         IF Falsy(given, "type") \/ Falsy(given, "target")
         THEN Rejected({"type", "target"}) ELSE Accepted
    [] tool = "sierra_manage_users"
         /\ op \in {"create", "drop", "alter", "get_permissions"} ->
         IF Falsy(given, "username") THEN Rejected({"username"}) ELSE Accepted
    [] tool = "sierra_manage_users" /\ op \in {"grant", "revoke"} ->
         IF \/ Falsy(given, "username") \/ Falsy(given, "permissions")
            \/ Falsy(given, "target") \/ Falsy(given, "targetType")
         THEN Rejected({"username", "permissions", "target", "targetType"})
         ELSE Accepted
    [] tool = "sierra_manage_constraints" /\ op = "create_fk" ->
         IF \/ Falsy(given, "constraintName") \/ Falsy(given, "tableName")
            \/ Falsy(given, "columnNames") \/ Falsy(given, "referencedTable")
            \/ Falsy(given, "referencedColumns")
         THEN Rejected({"constraintName", "tableName", "columnNames",
                        "referencedTable", "referencedColumns"})
         ELSE Accepted
    [] tool = "sierra_manage_constraints" /\ op \in {"drop_fk", "drop"} ->
         IF Falsy(given, "constraintName") \/ Falsy(given, "tableName")
         THEN Rejected({"constraintName", "tableName"}) ELSE Accepted
    [] tool = "sierra_manage_constraints" /\ op = "create" ->
         IF \/ Falsy(given, "constraintName") \/ Falsy(given, "tableName")
            \/ Falsy(given, "constraintTypeCreate")
         THEN Rejected({"constraintName", "tableName", "constraintTypeCreate"})
         ELSE IF /\ given["constraintTypeCreate"] \in {"unique", "primary_key"}
                 /\ (Falsy(given, "columnNames") \/ given["columnNames"] = "empty")
         THEN Rejected({"columnNames"})
         ELSE IF /\ given["constraintTypeCreate"] = "check"
                 /\ Falsy(given, "checkExpression")
         THEN Rejected({"checkExpression"})
         ELSE Accepted
    [] tool = "sierra_manage_functions" /\ op = "create" ->
         IF \/ Falsy(given, "functionName") \/ given["returnType"] = "absent"
            \/ Falsy(given, "functionBody")
         THEN Rejected({"functionName", "returnType", "functionBody"})
         ELSE Accepted
    [] tool = "sierra_manage_functions" /\ op = "drop" ->
         IF Falsy(given, "functionName") THEN Rejected({"functionName"})
         ELSE Accepted
    [] OTHER -> Accepted

\* How the database answers the statement of the operation.
QueryOutcomes == {"ok", "query_fails"}

\* execute of a manage tool once db.connect has resolved: the switch, the
\* catch block and the finally block.  `sql`: whether the statement of the
\* operation was sent; `acquired` / `released`: the client db.connect
\* checked out and db.disconnect gave back.
manageExecute(tool, op, given, db) ==
  LET check == OperationCheck(tool, op, given)
  IN [isError |-> check.rejected \/ db = "query_fails",
      named |-> check.named,
      sql |-> IF check.rejected THEN 0 ELSE 1,
      acquired |-> 1,
      released |-> 1]

\* A client is about to call one operation of one manage tool with some
\* combination of fields.
InitManage ==
  /\ toolsConfig = NoToolsConfig
  /\ enabledTools = loadAndFilterTools(toolsConfig)
  /\ boot = [phase |-> "serving",
             capabilities |-> {enabledTools[i] : i \in DOMAIN enabledTools},
             warnings |-> ConfigWarnings(toolsConfig)]
  /\ resolution = NoResolution
  /\ \E tool \in ManageTools :
     \E op \in Operations(tool),
        strings \in [ManageFields(tool) -> FieldValues],
        kind \in ConstraintTypes :
       manage = [NoManage EXCEPT
                   !.tool = tool,
                   !.op = op,
                   !.given = [f \in ManageFields(tool) |->
                                IF f = "constraintTypeCreate" THEN kind
                                ELSE strings[f]]]
  /\ Quiet

\* The call runs: execute to its end.
ManageCall ==
  /\ Serving
  /\ ~manage.done
  /\ \E db \in QueryOutcomes :
       manage' = [manage EXCEPT
                    !.done = TRUE,
                    !.out = manageExecute(manage.tool, manage.op,
                                          manage.given, db)]
  /\ UNCHANGED <<toolVars, httpVars, signalVars, stdio, dbVars, resolution, boot,
                 tx>>

NextManage == ManageCall

SpecManage == InitManage /\ [][NextManage]_vars

\* ------------------------------------------------------ session properties
\* An exchange is a step that writes `reply`; the unprimed variables are the
\* state the request arrived in.
Exchange == reply' # reply /\ reply'.ev = "request"

TokenlessInitialize ==
  /\ reply'.http = "POST"
  /\ reply'.hdr = NoHeader
  /\ reply'.req.method = "initialize"

MapUntouched == transports' = transports /\ tobj' = tobj /\ removed' = removed

C2_UnknownSessionRejected ==
  [][(Exchange /\ ~TokenlessInitialize /\ reply'.hdr \notin DOMAIN transports) =>
        /\ reply'.status = 400
        /\ MapUntouched
        /\ handlers' = handlers
        /\ proc' = proc]_vars

C4_SessionIdNeverReused ==
  /\ removed \cap DOMAIN transports = {}
  /\ \A s \in DOMAIN transports : tobj[transports[s]].sessionId = s
  /\ \A t1, t2 \in DOMAIN tobj :
       tobj[t1].sessionId = tobj[t2].sessionId => t1 = t2

C4_NewSessionAfterRemoval ==
  \E s \in removed, s2 \in DOMAIN transports :
    \E t \in DOMAIN tobj : tobj[t].sessionId = s /\ t < transports[s2]

\* C5: ending a session that has already ended raises nothing and changes
\* nothing: the DELETE is answered 400 and the map stays as it was.
C5_EndingTwiceIsHarmless ==
  [][(Exchange /\ reply'.http = "DELETE" /\ reply'.hdr \in removed) =>
        /\ reply'.status = 400
        /\ MapUntouched
        /\ streams' = streams
        /\ serverTransport' = serverTransport
        /\ handlers' = handlers
        /\ proc' = proc]_vars

C5_SecondDeleteAnswered ==
  /\ reply.http = "DELETE"
  /\ reply.hdr \in removed
  /\ reply.status = 400

\* ----------------------------------------------------- dispatch properties
\* The last thing written answers a tools/call whose handler has ended.
CallAnswered == reply.req.method = "tools/call" /\ reply.exec # "started"

EnabledNames == {enabledTools[i] : i \in DOMAIN enabledTools}

\* C6: a tools/call naming a tool that is not in the filtered tool map is
\* answered in the error slot with the method-not-found code, and no
\* execute ran.
C6_UnknownToolIsProtocolError ==
  (CallAnswered /\ reply.req.name \notin EnabledNames) =>
     /\ reply.body.slot = "error"
     /\ reply.body.code = -32601
     /\ reply.exec = "not_run"

\* The text of a response with the echoed tool name blanked out.
EraseName(text, name) ==
  [i \in DOMAIN text |-> IF text[i] = name THEN "<name>" ELSE text[i]]

\* What the handler answers in this state for a name no tool has.
NonexistentResponse(args) ==
  ProtocolResponse(CallToolStart(enabledTools, "no_such_tool", args))

\* C7: the answer to a call of a registered tool the allow-list excludes is,
\* up to the echoed name, the answer to a call of a tool that does not
\* exist.
C7_DisabledLooksNonexistent ==
  (CallAnswered /\ reply.req.name \in AvailableNames \ EnabledNames) =>
     /\ reply.body.slot = NonexistentResponse(reply.req.args).slot
     /\ reply.body.code = NonexistentResponse(reply.req.args).code
     /\ reply.body.isError = NonexistentResponse(reply.req.args).isError
     /\ EraseName(reply.body.text, reply.req.name)
          = EraseName(NonexistentResponse(reply.req.args).text, "no_such_tool")

\* C8: execute only ever runs with arguments that satisfy the tool's
\* declared input schema.
C8_ExecuteOnlyValidated ==
  /\ \A h \in handlers : SchemaViolations(h.tool, h.args) = {}
  /\ (reply.req.method = "tools/call" /\ reply.exec # "not_run") =>
       SchemaViolations(reply.req.name, reply.req.args) = {}

\* C9: a tools/call whose arguments violate the tool's schema is answered
\* in the error slot with the invalid-params code and a message naming
\* every violated field.
C9_ValidationFailureNamesFields ==
  (CallAnswered /\ reply.req.name \in EnabledNames
     /\ SchemaViolations(reply.req.name, reply.req.args) # {}) =>
     /\ reply.body.slot = "error"
     /\ reply.body.code = -32602
     /\ \A f \in SchemaViolations(reply.req.name, reply.req.args) :
          \E i \in DOMAIN reply.body.text : reply.body.text[i] = f

\* C10: when execute throws, or fails inside its own try block, the handler
\* answers in the result slot with isError true and the failure message as
\* the text, and the step leaves the sessions as they were.
C10_HandlerFailureBecomesOutput ==
  [][(reply' # reply /\ reply'.req.method = "tools/call"
        /\ reply'.exec \in {"raised", "failed"}) =>
        /\ reply'.body.slot = "result"
        /\ reply'.body.isError
        /\ Len(reply'.body.text) > 1
        /\ (reply'.exec = "raised" => reply'.body.text[1] = "Error: ")
        /\ MapUntouched
        /\ serverTransport' = serverTransport]_vars

C10_ThrownErrorAnswered ==
  /\ reply.req.method = "tools/call"
  /\ reply.exec = "raised"
  /\ reply.body.slot = "result"
  /\ reply.body.isError
  /\ reply.wire # NoWire

\* --------------------------------------------------- delivery properties
\* The stream of the POST that carried the request `reply` answers.
OwnStream ==
  {<<t, reply.req.id>> : t \in {u \in DOMAIN tobj : tobj[u].sessionId = reply.hdr}}

\* C11: every tools/call accepted on a live session gets exactly one
\* response, written on the stream of its own exchange: the response of an
\* ended handler is never lost and never written on another exchange's
\* stream.
C11_CallAnsweredOnOwnStream ==
  (Serving /\ CallAnswered) => reply.wire \in OwnStream

\* C12: within one session the responses are written in the order in which
\* their requests were dispatched.
C12_ResponsesInRequestOrder ==
  \A i, j \in DOMAIN stdio.stdout :
    i < j => stdio.stdout[i].id < stdio.stdout[j].id

\* ------------------------------------------------ independence properties
\* The calls whose connection string no other call shares.
OwnDatabase(c) ==
  \A o \in DOMAIN calls : o # c => calls[o].cs # calls[c].cs

\* C14: when concurrent calls use different connection strings, each call's
\* query runs on a client of the pool of its own connection string, and no
\* call ends with 'Not connected to database'.
C14_CallsIndependent ==
  \A c \in DOMAIN calls :
    OwnDatabase(c) =>
      /\ calls[c].ran # 0 =>
           dbconn.pools[dbconn.clients[calls[c].ran].pool].cs = calls[c].cs
      /\ calls[c].out # "Not connected to database"

\* ------------------------------------------------- cross-session properties
\* A handler of another session than the one `reply` answers is awaiting the
\* database.
OtherSessionStalled ==
  \E h \in handlers : tobj[h.tid].sessionId # reply.hdr

\* C13: a call whose handler ends at once, made while a handler of another
\* session is stalled on the database, is answered on its own exchange
\* without waiting for the stalled handler.
C13_NoHeadOfLineBlocking ==
  (Serving /\ CallAnswered /\ reply.ev = "request" /\ OtherSessionStalled) =>
     reply.wire \in OwnStream

\* The responses of the server reach the transport of session b.
Answers(st, trs, b) == st = trs[b]

\* C19: an exchange of one session leaves every other live session in the
\* map, bound to its transport, and still answered by the server.
C19_SessionsIsolated ==
  [][\A b \in DOMAIN transports :
       (reply' # reply /\ reply'.hdr # b) =>
          /\ b \in DOMAIN transports'
          /\ transports'[b] = transports[b]
          /\ Answers(serverTransport, transports, b) =>
               Answers(serverTransport', transports', b)]_vars

\* An exchange of the session of reply'.hdr is still in progress.
ExchangeInProgress ==
  \E h \in handlers : tobj[h.tid].sessionId = reply'.hdr

\* C20: an exchange that arrives while another exchange of the same session
\* is in progress is rejected (a 4xx status; 409 for a conflict) and not
\* handed to the transport.
C20_SessionHeldExclusively ==
  [][(Exchange /\ ExchangeInProgress) =>
        /\ reply'.status \in 400..499
        /\ MapUntouched]_vars

\* ------------------------------------------------------ start-up properties
\* A connection string that is given and not empty.
NonEmpty(x) == x.t = "string" /\ x.v # ""

NamesUnregistered(config) ==
  config.given /\ config.valid /\ config.names \ AvailableNames # {}

\* C16: when the allow-list names a tool that is not registered, each load of
\* it (in the constructor and in runStdio / runHttp) only warns about that
\* name: start-up goes on to the next phase and the enabled tools are exactly
\* the registered tools named in the allow-list.
C16_UnregisteredNameOnlyWarns ==
  [][(boot'.phase # boot.phase /\ NamesUnregistered(toolsConfig)) =>
       /\ boot'.phase \in {"constructed", "serving"}
       /\ {enabledTools'[i] : i \in DOMAIN enabledTools'} =
            AvailableNames \cap toolsConfig.names
       /\ toolsConfig.names \ AvailableNames \subseteq boot'.warnings]_vars

C16_ServingFilteredSubset ==
  /\ boot.phase = "serving"
  /\ Serving
  /\ toolsConfig = AllowListConfig
  /\ "sierra_not_registered" \in boot.warnings
  /\ enabledTools = <<"sierra_manage_indexes">>

\* C17: once the process serves, the tools advertised in the handshake
\* capabilities are the tools that tools/list returns and tools/call
\* dispatches to.
C17_AdvertisedIsEnabled ==
  boot.phase = "serving" => boot.capabilities = EnabledNames

\* C18: when the process has exited after SIGTERM, every session that was
\* live when the signal arrived had its transport closed and its entry
\* removed from the map before process.exit.
C18_SigtermClosesLiveSessions ==
  (proc = "exited" /\ shutdown.signal = "SIGTERM") => shutdown.unclosed = {}

\* ------------------------------------------------------- fault properties
\* The exchange reached handleRequest with something that is no transport:
\* the call throws a TypeError inside the route handler.
FaultRaised ==
  /\ ~InvalidSession(reply'.hdr)
  /\ reply'.hdr \notin DOMAIN transports

\* C21: an exchange (POST, GET or DELETE on /mcp) during which an internal
\* fault is raised is answered 500 with the generic body, code -32603 and
\* message "Internal server error", and the process keeps running.
C21_FaultAnsweredGenerically ==
  [][(Exchange /\ FaultRaised) =>
       /\ reply'.status = 500
       /\ reply'.body = ErrorBody(-32603, <<"Internal server error">>)
       /\ proc' = proc]_vars

\* A handler finished whose session had been terminated in the meantime.
OrphanSettle ==
  /\ reply' # reply
  /\ reply'.ev = "settle"
  /\ reply'.hdr \notin DOMAIN transports

\* C22: when a handler finishes after its session was terminated, execute
\* has run to its end, the result is written on no stream of any session,
\* and the completion changes neither the session map, nor the other
\* sessions' streams and handlers, nor the process.
C22_OrphanResultDiscarded ==
  [][OrphanSettle =>
       /\ reply'.exec \in {"raised", "failed", "returned"}
       /\ reply'.wire = NoWire
       /\ reply'.status = 0
       /\ streams' = streams
       /\ MapUntouched
       /\ serverTransport' = serverTransport
       /\ \E h \in handlers : handlers' = handlers \ {h}
       /\ proc' = proc]_vars

\* A tools/call response is written on some stream.
CallDelivered ==
  /\ reply' # reply
  /\ reply'.req.method = "tools/call"
  /\ reply'.wire # NoWire

\* C23: the response of a tools/call, whatever its kind (result, isError
\* result, protocol error), is delivered under the id the client sent and
\* on a stream of the session that sent the call.
C23_CorrelationIdPreserved ==
  [][CallDelivered =>
       /\ reply'.wire[2] = reply'.req.id
       /\ reply'.body.slot \in {"result", "error"}
       /\ tobj[reply'.wire[1]].sessionId = reply'.hdr]_vars

\* ------------------------------------------------------- session-map frame
\* C24: while the process lives, every step changes the session map by whole
\* entries: a new key was never in the map before and is bound to a new
\* transport whose sessionId is that key, at most one key is inserted per
\* step, an exchange removes at most one key, every removed key is recorded
\* as closed once, the entries that stay keep their transport, and every key
\* is the sessionId of its transport.
C24_MapMutationsAtomic ==
  [][proc' # "exited" =>
       LET inserted == (DOMAIN transports') \ (DOMAIN transports)
           deleted == (DOMAIN transports) \ (DOMAIN transports')
       IN /\ Cardinality(inserted) <= 1
          /\ \A s \in inserted :
               /\ s \notin removed
               /\ transports'[s] \notin DOMAIN tobj
               /\ tobj'[transports'[s]].sessionId = s
               /\ deleted = {}
          /\ (proc' = proc) => Cardinality(deleted) <= 1
          /\ deleted \cap removed = {}
          /\ removed' = removed \cup deleted
          /\ \A s \in (DOMAIN transports) \cap (DOMAIN transports') :
               transports'[s] = transports[s]
          /\ \A s \in DOMAIN transports' : tobj'[transports'[s]].sessionId = s]_vars

C24_OpenedAfterCloseAndShutdown ==
  /\ proc = "stopping"
  /\ removed # {}
  /\ DOMAIN transports # {}
  /\ reply.req.method = "initialize"
  /\ reply.status = 200

\* ------------------------------------------------ operation-field properties
\* The call leaves out a field its operation requires.
LacksRequired ==
  \E f \in RequiredFields(manage.tool, manage.op) : manage.given[f] = "absent"

\* C25: a call of a manage tool that leaves out a field its operation
\* requires returns an isError output that names required fields of the
\* operation, sends no statement for the operation, and gives back the
\* client it acquired.
C25_RequiredFieldsEnforced ==
  (manage.done /\ LacksRequired) =>
    /\ manage.out.isError
    /\ manage.out.named \cap RequiredFields(manage.tool, manage.op) # {}
    /\ manage.out.sql = 0
    /\ manage.out.acquired = 1
    /\ manage.out.released = manage.out.acquired

\* ------------------------------------------------------ database properties
\* Every invocation has run its finally block.
AllCallsFinished ==
  /\ DOMAIN calls # {}
  /\ \A c \in DOMAIN calls : calls[c].pc = "done"

\* C26: once every invocation has finished, no client obtained with
\* pool.connect() is still checked out.
C26_NoClientLeaked ==
  AllCallsFinished =>
    \A k \in DOMAIN dbconn.clients : dbconn.clients[k].released

\* C27: whenever connect(cs) resolves for an invocation (its SELECT 1
\* succeeded, or the fast path returned), the instance holds an unreleased
\* client of the pool for cs and connectionString is cs, so the query the
\* invocation issues next does not end with 'Not connected to database'.
C27_ConnectedAfterConnect ==
  [][\A c \in DOMAIN calls' :
       (/\ calls'[c].pc \in {"query", "done"}
        /\ (c \notin DOMAIN calls \/ calls[c].pc \in {"connect", "select"})
        /\ calls'[c].out # "Failed to connect to database") =>
         /\ calls'[c].out # "Not connected to database"
         /\ calls'[c].pc = "query"
         /\ dbconn'.client # 0
         /\ ~dbconn'.clients[dbconn'.client].released
         /\ dbconn'.pools[dbconn'.clients[dbconn'.client].pool].cs = calls'[c].cs
         /\ dbconn'.connectionString = calls'[c].cs]_vars

\* C28: when an invocation whose BEGIN succeeded has finished, its
\* transaction was closed on the client it was opened on: either COMMIT
\* succeeded there after all operations were applied and no ROLLBACK was
\* sent, or ROLLBACK was sent there.
C28_TransactionClosed ==
  \A c \in DOMAIN tx :
    (calls[c].pc = "done" /\ tx[c].begun # 0) =>
      \/ /\ tx[c].committed
         /\ tx[c].commitOn = tx[c].begun
         /\ tx[c].ops = NumOperations
         /\ tx[c].rollbackOn = 0
      \/ /\ ~tx[c].committed
         /\ tx[c].rollbackOn = tx[c].begun

\* ------------------------------------------------------- filter properties
\* C29: whenever --tools-config is given, each load of the file enables only
\* tools the file names; a file that cannot be read or has no string array
\* names none.
C29_EnabledWithinAllowList ==
  [][(boot'.phase # boot.phase /\ toolsConfig.given) =>
       {enabledTools'[i] : i \in DOMAIN enabledTools'} \subseteq toolsConfig.names]_vars

\* The step closes the transport of session s: a DELETE on s, or a step of
\* the shutdown after a signal.
OwnClose(s) ==
  \/ Exchange /\ reply'.http = "DELETE" /\ reply'.hdr = s
  \/ proc' # proc /\ reply' = reply

====
